---- MODULE Spec2Model ----
(***************************************************************************)
(* forkstack: the fork orchestration core (lib.rs), the configuration      *)
(* loader (config.rs), the Turso client (turso.rs) and the S3 storage      *)
(* client (storage.rs), as one sequential command per behaviour talking    *)
(* to a database provider and an object store.                             *)
(*                                                                         *)
(* Strings are sequences of one-character strings, so that prefixes,       *)
(* concatenation and the store's key order are computed, not assumed.      *)
(***************************************************************************)
EXTENDS Integers, Sequences, FiniteSets, TLC

\* ------------------------------------------------------------------ bounds

\* Largest number of keys the store returns in one listing response.
MaxPage == 2
\* Longest object key the store accepts (S3 rejects longer keys on copy).
MaxKeyLen == 20
\* Deepest working directory, counted in directories below the root.
MaxDepth == 2

\* ----------------------------------------------------------------- strings

\* The characters in use, in ascending byte order (the store lists keys in
\* UTF-8 binary order).
CharOrder ==
    << "-", ".", "/", "0", "1", "2", "3", "4", "5", "6", "7", "8", "9", ":",
       "a", "b", "c", "d", "e", "f", "g", "h", "i", "k", "l", "m", "n",
       "o", "p", "q", "r", "s", "t", "u", "v", "w", "x", "y" >>

Chars == { CharOrder[i] : i \in 1..Len(CharOrder) }

Code == [ c \in Chars |-> CHOOSE i \in 1..Len(CharOrder) : CharOrder[i] = c ]

\* Option<String>
None == [ some |-> FALSE, v |-> << >> ]
Some(s) == [ some |-> TRUE, v |-> s ]

\* Option::unwrap_or_else
UnwrapOr(o, d) == IF o.some THEN o.v ELSE d

\* str::starts_with
StartsWith(s, p) ==
    /\ Len(p) <= Len(s)
    /\ \A i \in 1..Len(p) : s[i] = p[i]

\* str::strip_prefix: Some(rest) when s starts with p, None otherwise
StripPrefix(s, p) ==
    IF StartsWith(s, p) THEN Some(SubSeq(s, Len(p) + 1, Len(s))) ELSE None

\* Byte-wise "less than" on strings.
LexLess(s, t) ==
    \E i \in 1..Len(t) :
        /\ i - 1 <= Len(s)
        /\ \A j \in 1..(i - 1) : s[j] = t[j]
        /\ \/ Len(s) = i - 1
           \/ Code[s[i]] < Code[t[i]]

RECURSIVE SortedSeq(_)
\* The keys of a finite set in ascending byte order.
SortedSeq(S) ==
    IF S = {} THEN << >>
    ELSE LET m == CHOOSE k \in S : \A o \in S : o = k \/ LexLess(k, o)
         IN  << m >> \o SortedSeq(S \ {m})

\* Join that keeps the first string only.
Join_First(ss, sep) == IF Len(ss) = 0 THEN << >> ELSE ss[1]

RECURSIVE Join(_, _)
\* [String]::join(sep)
Join(ss, sep) ==
    IF Len(ss) = 0 THEN << >>
    ELSE IF Len(ss) = 1 THEN ss[1]
    ELSE ss[1] \o sep \o Join(Tail(ss), sep)

Range(s) == { s[i] : i \in 1..Len(s) }

Min(a, b) == IF a < b THEN a ELSE b

\* Decimal rendering of a natural number ({} of format!).
Digit(d) == CharOrder[Code["0"] + d]

RECURSIVE Decimal(_)
Decimal(n) ==
    IF n < 10 THEN << Digit(n) >>
    ELSE Decimal(n \div 10) \o << Digit(n % 10) >>

\* All orderings of a finite set, as sequences without repetition.
Perms(S) ==
    { p \in [ 1..Cardinality(S) -> S ] :
        \A i, j \in 1..Cardinality(S) : p[i] = p[j] => i = j }

\* ----------------------------------------------------------- configuration

\* A configuration file's content: every field as written or absent.  The
\* storage sections are in the order the file declares them.
DbSection(provider, organization, production, group) ==
    [ provider |-> provider, organization |-> organization,
      production |-> production, group |-> group ]

StorageSection(label, provider, bucket, prefix) ==
    [ label |-> label, provider |-> provider, bucket |-> bucket, prefix |-> prefix ]

PROD == << "p" >>
ORG == << "o" >>
TURSO == << "t" >>
FORKS_SLASH == << "f", "o", "r", "k", "s", "/" >>

\* [database] only (test_parse_minimal_config)
DocMinimal ==
    [ database |-> DbSection(Some(TURSO), Some(ORG), Some(PROD), None),
      storage |-> << >> ]

\* one bucket, no prefix given (test_storage_fork_prefix_default)
DocOne ==
    [ database |-> DbSection(Some(TURSO), Some(ORG), Some(PROD), None),
      storage |-> << StorageSection(<< "u" >>, Some(<< "s" >>), Some(<< "m" >>), None) >> ]

\* two buckets, declared u then v (test_parse_full_config)
DocTwo ==
    [ database |-> DbSection(Some(TURSO), Some(ORG), Some(PROD), Some(<< "g" >>)),
      storage |-> << StorageSection(<< "u" >>, Some(<< "s" >>), Some(<< "m" >>), Some(FORKS_SLASH)),
                     StorageSection(<< "v" >>, Some(<< "s" >>), Some(<< "n" >>), None) >> ]

\* a custom prefix written without a trailing slash
DEV == << "d", "e", "v" >>

DocBare ==
    [ database |-> DbSection(Some(TURSO), Some(ORG), Some(PROD), None),
      storage |-> << StorageSection(<< "u" >>, Some(<< "s" >>), Some(<< "m" >>), Some(DEV)) >> ]

\* a required field is missing
DocNoProduction ==
    [ database |-> DbSection(Some(TURSO), Some(ORG), None, None),
      storage |-> << >> ]

Docs == { DocMinimal, DocOne, DocTwo, DocBare, DocNoProduction }

\* What the working directory and its ancestors hold.
Disks ==
    { [ found |-> FALSE, readable |-> FALSE, doc |-> DocMinimal ],
      [ found |-> TRUE, readable |-> FALSE, doc |-> DocMinimal ] }
    \cup { [ found |-> TRUE, readable |-> TRUE, doc |-> d ] : d \in Docs }

\* toml::from_str::<Config>: the required fields are database.provider,
\* database.organization, database.production, and each storage entry's
\* provider and bucket; nothing else is validated.
ParseOk(doc) ==
    /\ doc.database.provider.some
    /\ doc.database.organization.some
    /\ doc.database.production.some
    /\ \A i \in 1..Len(doc.storage) :
          doc.storage[i].provider.some /\ doc.storage[i].bucket.some

\* The Config value of a document that parses: storage is a map by label.
Parse(doc) ==
    [ database |-> [ provider |-> doc.database.provider.v,
                     organization |-> doc.database.organization.v,
                     production |-> doc.database.production.v,
                     group |-> doc.database.group ],
      storage |-> [ l \in { doc.storage[i].label : i \in 1..Len(doc.storage) } |->
                      LET e == CHOOSE e \in Range(doc.storage) : e.label = l
                      IN  [ provider |-> e.provider.v, bucket |-> e.bucket.v,
                            prefix |-> e.prefix ] ] ]

NoConfig ==
    [ database |-> [ provider |-> << >>, organization |-> << >>,
                     production |-> << >>, group |-> None ],
      storage |-> [ l \in {} |-> 0 ] ]

\* Config::load: find_config_file, then load_from_path
LoadError(d) ==
    IF ~d.found THEN "ConfigNotFound"
    ELSE IF ~d.readable THEN "ConfigRead"
    ELSE IF ~ParseOk(d.doc) THEN "ConfigParse"
    ELSE "none"

\* database_group with no default.
database_group_Empty(cfg) == UnwrapOr(cfg.database.group, << >>)

\* Config::database_group
database_group(cfg) == UnwrapOr(cfg.database.group, << "d", "e", "f", "a", "u", "l", "t" >>)

\* fork_prefix with a default that lacks the trailing slash.
fork_prefix_Bare(sc) == UnwrapOr(sc.prefix, << "f", "o", "r", "k", "s" >>)

\* StorageConfig::fork_prefix
fork_prefix(sc) == UnwrapOr(sc.prefix, FORKS_SLASH)

\* Config::storage_configs: the map's entries in the order its iterator
\* yields them, which is any order (HashMap with a per-process random seed).
StorageConfigOrders(cfg) == Perms(DOMAIN cfg.storage)

\* -------------------------------------------------------------- fork names

adjectives == << << "s", "w", "i", "f", "t" >>, << "b", "r", "i", "g", "h", "t" >>,
                 << "c", "a", "l", "m" >>, << "b", "o", "l", "d" >>,
                 << "k", "e", "e", "n" >> >>

nouns == << << "f", "o", "r", "k" >>, << "b", "r", "a", "n", "c", "h" >>,
            << "l", "e", "a", "f" >>, << "w", "a", "v", "e" >>,
            << "s", "p", "a", "r", "k" >> >>

\* A u64 as four 16-bit limbs, least significant first: the values of a
\* 64-bit hash do not fit the integers of the checker.
LIMB == 65536
U64(n) == << n % LIMB, n \div LIMB, 0, 0 >>

RECURSIVE Pow2(_)
Pow2(k) == IF k = 0 THEN 1 ELSE 2 * Pow2(k - 1)

\* shr that does not shift.
shr_None(h, k) == h

\* h >> k on u64, for 0 <= k < 64
shr(h, k) ==
    LET q == k \div 16
        r == k % 16
        limb(i) == IF i > 4 THEN 0 ELSE h[i]
    IN  [ i \in 1..4 |->
            (limb(i + q) \div Pow2(r)) + (limb(i + q + 1) % Pow2(r)) * Pow2(16 - r) ]

\* h % m on u64, for 0 < m <= 1000
rem(h, m) ==
    LET r4 == h[4] % m
        r3 == (r4 * LIMB + h[3]) % m
        r2 == (r3 * LIMB + h[2]) % m
    IN  (r2 * LIMB + h[1]) % m

\* generate_fork_name, as a function of the 64-bit value the hasher yields
generate_fork_name(hash) ==
    LET adj == adjectives[rem(hash, Len(adjectives)) + 1]
        noun == nouns[rem(shr(hash, 8), Len(nouns)) + 1]
        num == rem(shr(hash, 16), 1000)
    IN  adj \o << "-" >> \o noun \o << "-" >> \o Decimal(num)

\* Hash values the hasher may yield (a sample of the 64-bit range).
HashValues == { U64(2), U64(65536 * 7 + 256 * 2 + 4) }

\* ------------------------------------------------------------ the services

FORK_X == << "x" >>
FORK_Y == << "y" >>

\* The hostname the provider assigns to a database.
HostnameOf(name) == name \o << ".", "t" >>

DbEntry(name) == [ name |-> name, hostname |-> HostnameOf(name) ]

\* The provider's databases at the start of a command, in the order its
\* listing returns them.
DbStates == { << DbEntry(PROD) >>, << DbEntry(FORK_X), DbEntry(PROD), DbEntry(FORK_Y) >> }

DbNames(dbs) == { dbs[i].name : i \in 1..Len(dbs) }

RECURSIVE WithoutDb(_, _)
WithoutDb(dbs, name) ==
    IF Len(dbs) = 0 THEN << >>
    ELSE (IF dbs[1].name = name THEN << >> ELSE << dbs[1] >>) \o WithoutDb(Tail(dbs), name)

\* The HTTP responses a provider call can meet: no response at all, or a
\* status with a body.
Bodies == { << "e" >>, << >> }
ErrorStatuses == { 300, 404, 500 }
OK_STATUS == 200

\* One HTTP response: its status, the body the provider sent, and whether
\* the body can be read to its end.
Http(status, body, readable) == [ status |-> status, body |-> body, readable |-> readable ]
NoHttp == Http(0, << >>, FALSE)

\* response.text().await.unwrap_or_default(): the body, or the empty string
\* when the body cannot be read.
TextOrDefault(body, readable) == IF readable THEN body ELSE << >>

\* reqwest StatusCode::is_success
is_success(status) == 200 <= status /\ status <= 299

\* Object keys a bucket may hold when a command starts.
SeedKeys ==
    { << "a" >>, FORKS_SLASH \o FORK_X \o << "/", "a" >>,
      FORKS_SLASH \o FORK_X \o << "/", "b" >> }

\* Object keys a bucket may hold when the storage client's list_forks is
\* called: objects of two forks, an object directly under the root prefix,
\* and an object whose fork segment is empty.
ListSeedKeys ==
    { FORKS_SLASH \o FORK_X \o << "/", "a" >>, FORKS_SLASH \o FORK_Y \o << "/", "b" >>,
      FORKS_SLASH \o << "r" >>, FORKS_SLASH \o << "/", "a" >> }

\* The buckets a configuration document names.
BucketsOf(doc) ==
    { doc.storage[i].bucket.v : i \in { j \in 1..Len(doc.storage) : doc.storage[j].bucket.some } }

\* ListObjectsV2 on a bucket holding `keys`: the keys with the prefix that
\* follow the continuation token, in ascending order, at most n of them; the
\* response is truncated when more remain, and then carries the last key
\* returned as the next token.
ListPage(keys, prefix, token, n) ==
    LET matching == { k \in keys : StartsWith(k, prefix)
                                    /\ (token.some => LexLess(token.v, k)) }
        sorted == SortedSeq(matching)
        page == SubSeq(sorted, 1, Min(n, Len(sorted)))
        more == Len(sorted) > n
    IN  [ contents |-> page,
          is_truncated |-> more,
          next_continuation_token |-> IF more THEN Some(page[Len(page)]) ELSE None ]

\* The position of the first delimiter d in s, 0 when there is none.
FirstIndex(s, d) ==
    IF \E i \in 1..Len(s) : s[i] = d
    THEN CHOOSE i \in 1..Len(s) : s[i] = d /\ \A j \in 1..(i - 1) : s[j] # d
    ELSE 0

\* What a delimiter listing returns for one key with the prefix: the key
\* itself when no delimiter follows the prefix, else the common prefix, which
\* runs to the first delimiter after the prefix.
GroupOf(key, prefix, d) ==
    LET rest == SubSeq(key, Len(prefix) + 1, Len(key))
        i == FirstIndex(rest, d)
    IN  IF i = 0 THEN key ELSE prefix \o SubSeq(rest, 1, i)

\* ListObjectsV2 with a delimiter, first request: the keys and the common
\* prefixes under `prefix` in ascending order, at most n of them together
\* (a common prefix counts as one); truncated when more remain.
ListGrouped(keys, prefix, d, n) ==
    LET matching == { k \in keys : StartsWith(k, prefix) }
        sorted == SortedSeq({ GroupOf(k, prefix, d) : k \in matching })
        page == SubSeq(sorted, 1, Min(n, Len(sorted)))
        more == Len(sorted) > n
    IN  [ contents |-> SelectSeq(page, LAMBDA e : e \in matching),
          common_prefixes |-> SelectSeq(page, LAMBDA e : e \notin matching),
          is_truncated |-> more,
          next_continuation_token |-> IF more THEN Some(page[Len(page)]) ELSE None ]

\* ------------------------------------------------------------------- state

VARIABLES
    disk,                \* the configuration file the directory walk meets
    current,             \* find_config_file: the directory the walk is at
    environ,             \* TURSO_API_TOKEN and TURSO_AUTH_TOKEN
    databases,           \* the provider's databases (name, hostname), in listing order
    objects,             \* the store: bucket name -> set of keys
    before,              \* the store as it was when the command started
    call,                \* the command: op, name, hash (name generation), source_prefix
    pc,                  \* where the command is
    config,              \* the loaded Config
    turso,               \* TursoClient: token, organization
    fork_name,           \* create_fork: resolved name; delete_fork: name
    database_url,        \* create_fork: libsql://{hostname}
    configs,             \* config.storage_configs(): labels in iteration order
    idx,                 \* position of the for loop in configs
    storage_urls,        \* create_fork: the "{label}: {url}" strings so far
    storage,             \* StorageClient: bucket, prefix
    continuation_token,  \* Option<String> of the listing loop
    response,            \* the listing response in hand
    contents,            \* the objects of that response not yet visited
    result,              \* what the command returned
    log                  \* every request issued, in order, with its outcome

vars == << disk, current, environ, databases, objects, before, call, pc, config, turso, fork_name,
           database_url, configs, idx, storage_urls, storage, continuation_token,
           response, contents, result, log >>

\* The time SystemTime::now() reads, in seconds.
Times == { 1700000000 }

LIBSQL == << "l", "i", "b", "s", "q", "l", ":", "/", "/" >>
S3_SCHEME == << "s", "3", ":", "/", "/" >>

\* struct Fork
Fork(name, db_url, st_url, created) ==
    [ name |-> name, database_url |-> db_url, storage_url |-> st_url,
      created_at |-> created ]

NoFork == Fork(<< >>, << >>, << >>, 0)

\* Result<T>: the value a command or a storage call returns.
Running ==
    [ status |-> "running", error |-> "none", key |-> << >>, code |-> 0,
      body |-> << >>, fork |-> NoFork, forks |-> << >>, url |-> << >>,
      text |-> << >> ]

Err(kind) == [ Running EXCEPT !.status = "err", !.error = kind ]
ErrKey(kind, key) == [ Running EXCEPT !.status = "err", !.error = kind, !.key = key ]
ErrApi(status, body) ==
    [ Running EXCEPT !.status = "err", !.error = "TursoApi", !.code = status, !.body = body ]
\* ErrApi carrying the status alone.
ApiError_NoBody(status, text) == ErrApi(status, << >>)

\* anyhow::bail!("Turso API error ({}): {}", status, body)
ApiError(status, text) == ErrApi(status, text)

OkUnit == [ Running EXCEPT !.status = "ok" ]
OkFork(f) == [ Running EXCEPT !.status = "ok", !.fork = f ]
OkForks(fs) == [ Running EXCEPT !.status = "ok", !.forks = fs ]
OkUrl(u) == [ Running EXCEPT !.status = "ok", !.url = u ]
OkText(s) == [ Running EXCEPT !.status = "ok", !.text = s ]

\* One logged request and what came back.
Entry(svc, op, target, key, source, token, ok) ==
    [ svc |-> svc, op |-> op, target |-> target, key |-> key, source |-> source,
      token |-> token, ok |-> ok, contents |-> << >>, is_truncated |-> FALSE,
      next_continuation_token |-> None, auth |-> << >>, group |-> << >>,
      status |-> 0, body |-> << >>, readable |-> FALSE ]

\* A request to the provider with the response it met (NoHttp: none).
TursoEntry(op, name, http) ==
    [ Entry("turso", op, turso.organization, name, << >>, None, is_success(http.status))
        EXCEPT !.auth = turso.token, !.status = http.status, !.body = http.body,
               !.readable = http.readable ]

\* POST {base}/organizations/{org}/databases with name, group and the seed
\* database (turso.rs 73-94)
CreateEntry(name, http) ==
    [ TursoEntry("POST", name, http)
        EXCEPT !.source = config.database.production,
               !.group = database_group(config) ]

ListEntry(prefix, token, ok, resp) ==
    [ Entry("s3", "list_objects", storage.bucket, prefix, << >>, token, ok)
        EXCEPT !.contents = resp.contents, !.is_truncated = resp.is_truncated,
               !.next_continuation_token = resp.next_continuation_token ]

NoResponse == [ contents |-> << >>, is_truncated |-> FALSE, next_continuation_token |-> None ]
NoClient == [ bucket |-> << >>, prefix |-> << >> ]
NoTurso == [ token |-> << >>, organization |-> << >> ]

Calls ==
    { [ op |-> "create", name |-> n, hash |-> U64(0), source_prefix |-> << >> ] :
        n \in { Some(FORK_X), Some(FORK_Y) } }
    \cup { [ op |-> "create", name |-> None, hash |-> h, source_prefix |-> << >> ] :
             h \in HashValues }
    \cup { [ op |-> "list", name |-> None, hash |-> U64(0), source_prefix |-> << >> ] }
    \cup { [ op |-> "delete", name |-> Some(n), hash |-> U64(0), source_prefix |-> << >> ] :
             n \in { FORK_X, PROD } }
    \cup { [ op |-> "storage_copy", name |-> Some(FORK_Y), hash |-> U64(0),
             source_prefix |-> FORKS_SLASH \o FORK_X \o << "/" >> ] }
    \cup { [ op |-> "storage_list", name |-> None, hash |-> U64(0), source_prefix |-> << >> ] }

\* An environment variable as the process holds it: not set, set to a string,
\* or set to bytes that are not valid Unicode.
Unset == [ set |-> FALSE, unicode |-> FALSE, v |-> << >> ]
SetTo(s) == [ set |-> TRUE, unicode |-> TRUE, v |-> s ]
NotUnicode == [ set |-> TRUE, unicode |-> FALSE, v |-> << >> ]

Environments ==
    [ TURSO_API_TOKEN : { Unset, SetTo(<< "1" >>) },
      TURSO_AUTH_TOKEN : { Unset, SetTo(<< "2" >>) } ]
    \cup [ TURSO_API_TOKEN : { NotUnicode },
           TURSO_AUTH_TOKEN : { Unset, SetTo(<< "2" >>) } ]

Init ==
    /\ disk \in Disks
    /\ current = << >>
    /\ environ \in Environments
    /\ databases \in DbStates
    /\ call \in Calls
    /\ objects \in [ BucketsOf(disk.doc) ->
                       SUBSET (IF call.op = "storage_list" THEN ListSeedKeys ELSE SeedKeys) ]
    /\ before = objects
    /\ pc = "start"
    /\ config = NoConfig
    /\ turso = NoTurso
    /\ fork_name = << >>
    /\ database_url = << >>
    /\ configs = << >>
    /\ idx = 0
    /\ storage_urls = << >>
    /\ storage = NoClient
    /\ continuation_token = None
    /\ response = NoResponse
    /\ contents = << >>
    /\ result = Running
    /\ log = << >>

\* The command ends with `r`.
Return(r) ==
    /\ result' = r
    /\ pc' = "done"

\* ----------------------------------------------------------------- actions

\* Config::load()?, and in create_fork the name and the clock (lib.rs 50-55,
\* 85, 108).  A caller of the storage client alone loads the configuration
\* the same way.
LoadConfig ==
    /\ pc = "start"
    /\ IF LoadError(disk) # "none"
       THEN /\ Return(Err(LoadError(disk)))
            /\ UNCHANGED << config, fork_name >>
       ELSE /\ config' = Parse(disk.doc)
            /\ fork_name' = IF call.op = "create"
                            THEN UnwrapOr(call.name, generate_fork_name(call.hash))
                            ELSE UnwrapOr(call.name, << >>)
            /\ pc' = IF call.op \in { "storage_copy", "storage_list" } THEN "caller" ELSE "client"
            /\ UNCHANGED result
    /\ UNCHANGED << disk, current, environ, databases, objects, before, call, turso, database_url,
                    configs, idx, storage_urls, storage, continuation_token,
                    response, contents, log >>

\* std::env::var: Ok(value) when the variable is set to valid Unicode, Err
\* when it is not set or its value is not valid Unicode.
env_var(x) == IF x.set /\ x.unicode THEN Some(x.v) ELSE None

\* ResolveToken looking at TURSO_AUTH_TOKEN first.
ResolveToken_AuthFirst(env) ==
    IF env_var(env.TURSO_AUTH_TOKEN).some
    THEN env_var(env.TURSO_AUTH_TOKEN)
    ELSE env_var(env.TURSO_API_TOKEN)

\* std::env::var("TURSO_API_TOKEN").or_else(|_| std::env::var("TURSO_AUTH_TOKEN"))
ResolveToken(env) ==
    IF env_var(env.TURSO_API_TOKEN).some
    THEN env_var(env.TURSO_API_TOKEN)
    ELSE env_var(env.TURSO_AUTH_TOKEN)

\* TursoClient::new(&config.database.organization)?
NewTursoClient ==
    /\ pc = "client"
    /\ IF ResolveToken(environ).some
       THEN /\ turso' = [ token |-> ResolveToken(environ).v,
                          organization |-> config.database.organization ]
            /\ pc' = "db"
            /\ UNCHANGED result
       ELSE /\ Return(Err("AuthMissing"))
            /\ UNCHANGED turso
    /\ UNCHANGED << disk, current, environ, databases, objects, before, call, config, fork_name,
                    database_url, configs, idx, storage_urls, storage,
                    continuation_token, response, contents, log >>

\* The start of the loop over config.storage_configs() (lib.rs 67, 115).
EnterBuckets ==
    /\ \E order \in StorageConfigOrders(config) : configs' = order
    /\ idx' = 1
    /\ pc' = "buckets"

\* CreateForkFailed with the error dropped: the storage copies still run.
CreateForkFailed_Continue(r, http) ==
    /\ log' = Append(log, CreateEntry(fork_name, http))
    /\ \E order \in StorageConfigOrders(config) : configs' = order
    /\ idx' = 1
    /\ pc' = "buckets"
    /\ UNCHANGED << databases, database_url, result >>

\* A rejected create (bail!): the error goes to the caller through `?`
\* (turso.rs 96-100, lib.rs 61).
CreateForkFailed(r, http) ==
    /\ log' = Append(log, CreateEntry(fork_name, http))
    /\ Return(r)
    /\ UNCHANGED << databases, database_url, configs, idx >>

\* turso.create_fork(&fork_name, &config.database.production,
\* &config.database_group()).await? and the database_url (lib.rs 59-63)
TursoCreateFork ==
    /\ pc = "db"
    /\ call.op = "create"
    /\ \/ \* the request gets no response
          CreateForkFailed(Err("TursoSend"), NoHttp)
       \/ \* a non-success status
          \E st \in ErrorStatuses, b \in Bodies, readable \in BOOLEAN :
             /\ ~is_success(st)
             /\ CreateForkFailed(ApiError(st, TextOrDefault(b, readable)), Http(st, b, readable))
       \/ \* created, but the body is not the expected JSON
          /\ fork_name \notin DbNames(databases)
          /\ databases' = Append(databases, DbEntry(fork_name))
          /\ is_success(OK_STATUS)
          /\ log' = Append(log, CreateEntry(fork_name, Http(OK_STATUS, << >>, TRUE)))
          /\ Return(Err("TursoParse"))
          /\ UNCHANGED << database_url, configs, idx >>
       \/ \* created
          /\ fork_name \notin DbNames(databases)
          /\ databases' = Append(databases, DbEntry(fork_name))
          /\ is_success(OK_STATUS)
          /\ log' = Append(log, CreateEntry(fork_name, Http(OK_STATUS, << >>, TRUE)))
          /\ database_url' = LIBSQL \o DbEntry(fork_name).hostname
          /\ EnterBuckets
          /\ UNCHANGED result
    /\ UNCHANGED << disk, current, environ, objects, before, call, config, turso, fork_name,
                    storage_urls, storage, continuation_token, response, contents >>

\* IsFork without the filter.
IsFork_Any(db) == TRUE

\* db.name != config.database.production
IsFork(db) == db.name # config.database.production

RECURSIVE ForksOf(_)
\* databases.into_iter().filter(..).map(..).collect() (lib.rs 92-101)
ForksOf(dbs) ==
    IF Len(dbs) = 0 THEN << >>
    ELSE (IF IsFork(dbs[1])
          THEN << Fork(dbs[1].name, LIBSQL \o dbs[1].hostname, << >>, 0) >>
          ELSE << >>) \o ForksOf(Tail(dbs))

\* turso.list_databases().await? and the filter (lib.rs 89-103)
TursoListDatabases ==
    /\ pc = "db"
    /\ call.op = "list"
    /\ \/ /\ log' = Append(log, TursoEntry("GET", << >>, NoHttp))
          /\ Return(Err("TursoSend"))
       \/ \E st \in ErrorStatuses, b \in Bodies, readable \in BOOLEAN :
             /\ ~is_success(st)
             /\ log' = Append(log, TursoEntry("GET", << >>, Http(st, b, readable)))
             /\ Return(ApiError(st, TextOrDefault(b, readable)))
       \/ /\ is_success(OK_STATUS)
          /\ log' = Append(log, TursoEntry("GET", << >>, Http(OK_STATUS, << >>, TRUE)))
          /\ Return(Err("TursoParse"))
       \/ /\ is_success(OK_STATUS)
          /\ log' = Append(log, TursoEntry("GET", << >>, Http(OK_STATUS, << >>, TRUE)))
          /\ Return(OkForks(ForksOf(databases)))
    /\ UNCHANGED << disk, current, environ, databases, objects, before, call, config, turso,
                    fork_name, database_url, configs, idx, storage_urls, storage,
                    continuation_token, response, contents >>

\* DeleteDatabaseFailed with the error dropped: the storage deletes still run.
DeleteDatabaseFailed_Continue(r, http) ==
    /\ log' = Append(log, TursoEntry("DELETE", fork_name, http))
    /\ \E order \in StorageConfigOrders(config) : configs' = order
    /\ idx' = 1
    /\ pc' = "buckets"
    /\ UNCHANGED << databases, result >>

\* A rejected delete (bail!): the error goes to the caller through `?`
\* (turso.rs 154-158, lib.rs 112).
DeleteDatabaseFailed(r, http) ==
    /\ log' = Append(log, TursoEntry("DELETE", fork_name, http))
    /\ Return(r)
    /\ UNCHANGED << databases, configs, idx >>

\* turso.delete_database(name).await? (lib.rs 112)
TursoDeleteDatabase ==
    /\ pc = "db"
    /\ call.op = "delete"
    /\ \/ DeleteDatabaseFailed(Err("TursoSend"), NoHttp)
       \/ \E st \in ErrorStatuses, b \in Bodies, readable \in BOOLEAN :
             /\ ~is_success(st)
             /\ DeleteDatabaseFailed(ApiError(st, TextOrDefault(b, readable)), Http(st, b, readable))
       \/ /\ fork_name \in DbNames(databases)
          /\ is_success(OK_STATUS)
          /\ databases' = WithoutDb(databases, fork_name)
          /\ log' = Append(log, TursoEntry("DELETE", fork_name, Http(OK_STATUS, << >>, TRUE)))
          /\ EnterBuckets
          /\ UNCHANGED result
    /\ UNCHANGED << disk, current, environ, objects, before, call, config, turso, fork_name,
                    database_url, storage_urls, storage, continuation_token,
                    response, contents >>

\* EntryAt walking the entries from the far end.
EntryAt_Reversed(cfgs, i) == cfgs[Len(cfgs) - i + 1]

\* The entry the for loop is at: the idx-th the iterator yielded.
EntryAt(cfgs, i) == cfgs[i]

\* StorageClient::new(storage_config, &storage_config.fork_prefix())
NewStorageClient(sc) == [ bucket |-> sc.bucket, prefix |-> fork_prefix(sc) ]

\* One turn of `for (bucket_name, storage_config) in config.storage_configs()`:
\* the next entry's client, or the loop's end and the command's result
\* (lib.rs 67-68 and 73-80, 115-116 and 120).
ForBucket ==
    /\ pc = "buckets"
    /\ IF idx <= Len(configs)
       THEN /\ storage' = NewStorageClient(config.storage[EntryAt(configs, idx)])
            /\ continuation_token' = None
            /\ pc' = "list"
            /\ UNCHANGED result
       ELSE /\ \E now \in Times :
                 Return(IF call.op = "create"
                        THEN OkFork(Fork(fork_name, database_url,
                                         Join(storage_urls, << "\n" >>), now))
                        ELSE OkUnit)
            /\ UNCHANGED << storage, continuation_token >>
    /\ UNCHANGED << disk, current, environ, databases, objects, before, call, config, turso,
                    fork_name, database_url, configs, idx, storage_urls,
                    response, contents, log >>

\* A caller of the storage client alone: a client for one configured entry,
\* then copy_to_fork(source_prefix, fork_name) or list_forks().
CallStorage ==
    /\ pc = "caller"
    /\ \E l \in DOMAIN config.storage :
          /\ configs' = << l >>
          /\ storage' = NewStorageClient(config.storage[l])
    /\ idx' = 1
    /\ continuation_token' = None
    /\ pc' = "list"
    /\ UNCHANGED << disk, current, environ, databases, objects, before, call, config, turso,
                    fork_name, database_url, storage_urls, response, contents,
                    result, log >>

\* ForkPrefix without the fork's name: the root prefix alone.
ForkPrefix_Root(client, name) == client.prefix

\* format!("{}{}/", self.prefix, fork_name) (storage.rs 41, 95)
ForkPrefix(client, name) == client.prefix \o name \o << "/" >>

\* RelativePath without the stripping.
RelativePath_Whole(key, source_prefix) == key

\* key.strip_prefix(source_prefix).unwrap_or(&key) (storage.rs 66)
RelativePath(key, source_prefix) == UnwrapOr(StripPrefix(key, source_prefix), key)

\* format!("{}{}", fork_prefix, relative_path) (storage.rs 67)
NewKey(client, name, key, source_prefix) ==
    ForkPrefix(client, name) \o RelativePath(key, source_prefix)

\* format!("{}/{}", self.bucket, key) (storage.rs 70)
CopySource(client, key) == client.bucket \o << "/" >> \o key

\* format!("s3://{}/{}", self.bucket, fork_prefix) (storage.rs 90)
ForkLocation(client, name) ==
    S3_SCHEME \o client.bucket \o << "/" >> \o ForkPrefix(client, name)

Copying == call.op \in { "create", "storage_copy" }
Deleting == call.op = "delete"

\* copy_to_fork: one list_objects_v2 request under source_prefix, with the
\* continuation token when there is one (storage.rs 47-60)
CopyList ==
    /\ pc = "list"
    /\ Copying
    /\ \/ /\ log' = Append(log, ListEntry(call.source_prefix, continuation_token,
                                          FALSE, NoResponse))
          /\ Return(Err("ListSource"))
          /\ UNCHANGED << response, contents >>
       \/ \E n \in 1..MaxPage :
             LET resp == ListPage(objects[storage.bucket], call.source_prefix,
                                  continuation_token, n)
             IN  /\ response' = resp
                 /\ contents' = resp.contents
                 /\ log' = Append(log, ListEntry(call.source_prefix,
                                                 continuation_token, TRUE, resp))
                 /\ pc' = "objects"
                 /\ UNCHANGED result
    /\ UNCHANGED << disk, current, environ, databases, objects, before, call, config, turso,
                    fork_name, database_url, configs, idx, storage_urls, storage,
                    continuation_token >>

\* CopyFailed with the error dropped: the loop goes on to the next key.
CopyFailed_Ignored(key, new_key, copy_source) ==
    /\ log' = Append(log, Entry("s3", "copy_object", storage.bucket,
                                new_key, copy_source, None, FALSE))
    /\ contents' = Tail(contents)
    /\ UNCHANGED << objects, pc, result >>

\* A failed copy_object: with_context(..)? ends copy_to_fork, and `?` in
\* create_fork ends the command (storage.rs 76-78, lib.rs 69).
CopyFailed(key, new_key, copy_source) ==
    /\ log' = Append(log, Entry("s3", "copy_object", storage.bucket,
                                new_key, copy_source, None, FALSE))
    /\ Return(ErrKey("CopyObject", key))
    /\ UNCHANGED << objects, contents >>

\* copy_to_fork: the copy_object request for the next listed key
\* (storage.rs 63-79)
CopyObject ==
    /\ pc = "objects"
    /\ Copying
    /\ contents # << >>
    /\ LET key == Head(contents)
           new_key == NewKey(storage, fork_name, key, call.source_prefix)
           copy_source == CopySource(storage, key)
       IN  \/ CopyFailed(key, new_key, copy_source)
           \/ /\ Len(new_key) <= MaxKeyLen
              /\ key \in objects[storage.bucket]
              /\ objects' = [ objects EXCEPT ![storage.bucket] = @ \cup { new_key } ]
              /\ log' = Append(log, Entry("s3", "copy_object", storage.bucket,
                                          new_key, copy_source, None, TRUE))
              /\ contents' = Tail(contents)
              /\ UNCHANGED << pc, result >>
    /\ UNCHANGED << disk, current, environ, databases, before, call, config, turso, fork_name,
                    database_url, configs, idx, storage_urls, storage,
                    continuation_token, response >>

\* NextToken with the token forgotten: the next request lists from the start.
NextToken_Forgotten(resp) == None

\* continuation_token = response.next_continuation_token (storage.rs 84, 131)
NextToken(resp) == resp.next_continuation_token

\* MorePages that stops after the first page.
MorePages_Never(resp) == FALSE

\* response.is_truncated == Some(true) (storage.rs 83, 130)
MorePages(resp) == resp.is_truncated

\* copy_to_fork: after the page's objects, the next page or the return of
\* the location, pushed by create_fork as "{label}: {url}" (storage.rs 83-90,
\* lib.rs 69-70)
CopyPageDone ==
    /\ pc = "objects"
    /\ Copying
    /\ contents = << >>
    /\ IF MorePages(response)
       THEN /\ continuation_token' = NextToken(response)
            /\ pc' = "list"
            /\ UNCHANGED << storage_urls, idx, result >>
       ELSE IF call.op = "create"
       THEN /\ storage_urls' = Append(storage_urls,
                                      EntryAt(configs, idx) \o << ":", " " >>
                                        \o ForkLocation(storage, fork_name))
            /\ idx' = idx + 1
            /\ pc' = "buckets"
            /\ UNCHANGED << continuation_token, result >>
       ELSE /\ Return(OkUrl(ForkLocation(storage, fork_name)))
            /\ UNCHANGED << continuation_token, storage_urls, idx >>
    /\ UNCHANGED << disk, current, environ, databases, objects, before, call, config, turso,
                    fork_name, database_url, configs, storage, response, contents,
                    log >>

\* delete_fork: one list_objects_v2 request under the fork prefix
\* (storage.rs 101-114)
DeleteList ==
    /\ pc = "list"
    /\ Deleting
    /\ \/ /\ log' = Append(log, ListEntry(ForkPrefix(storage, fork_name),
                                          continuation_token, FALSE, NoResponse))
          /\ Return(Err("ListDelete"))
          /\ UNCHANGED << response, contents >>
       \/ \E n \in 1..MaxPage :
             LET resp == ListPage(objects[storage.bucket],
                                  ForkPrefix(storage, fork_name),
                                  continuation_token, n)
             IN  /\ response' = resp
                 /\ contents' = resp.contents
                 /\ log' = Append(log, ListEntry(ForkPrefix(storage, fork_name),
                                                 continuation_token, TRUE, resp))
                 /\ pc' = "objects"
                 /\ UNCHANGED result
    /\ UNCHANGED << disk, current, environ, databases, objects, before, call, config, turso,
                    fork_name, database_url, configs, idx, storage_urls, storage,
                    continuation_token >>

\* DeleteFailed with the error dropped: the loop goes on to the next key.
DeleteFailed_Ignored(key) ==
    /\ log' = Append(log, Entry("s3", "delete_object", storage.bucket,
                                key, << >>, None, FALSE))
    /\ contents' = Tail(contents)
    /\ UNCHANGED << objects, pc, result >>

\* A failed delete_object: with_context(..)? ends delete_fork, and `?` in
\* the orchestration ends the command (storage.rs 123-125, lib.rs 117).
DeleteFailed(key) ==
    /\ log' = Append(log, Entry("s3", "delete_object", storage.bucket,
                                key, << >>, None, FALSE))
    /\ Return(ErrKey("DeleteObject", key))
    /\ UNCHANGED << objects, contents >>

\* delete_fork: the delete_object request for the next listed key
\* (storage.rs 116-127)
DeleteObject ==
    /\ pc = "objects"
    /\ Deleting
    /\ contents # << >>
    /\ LET key == Head(contents)
       IN  \/ DeleteFailed(key)
           \/ /\ objects' = [ objects EXCEPT ![storage.bucket] = @ \ { key } ]
              /\ log' = Append(log, Entry("s3", "delete_object", storage.bucket,
                                          key, << >>, None, TRUE))
              /\ contents' = Tail(contents)
              /\ UNCHANGED << pc, result >>
    /\ UNCHANGED << disk, current, environ, databases, before, call, config, turso, fork_name,
                    database_url, configs, idx, storage_urls, storage,
                    continuation_token, response >>

\* delete_fork: after the page's objects, the next page or Ok(()) and the
\* next bucket (storage.rs 130-137, lib.rs 117)
DeletePageDone ==
    /\ pc = "objects"
    /\ Deleting
    /\ contents = << >>
    /\ IF MorePages(response)
       THEN /\ continuation_token' = NextToken(response)
            /\ pc' = "list"
            /\ UNCHANGED idx
       ELSE /\ idx' = idx + 1
            /\ pc' = "buckets"
            /\ UNCHANGED continuation_token
    /\ UNCHANGED << disk, current, environ, databases, objects, before, call, config, turso,
                    fork_name, database_url, configs, storage_urls, storage,
                    response, contents, result, log >>

RECURSIVE trim_end_matches(_, _)
\* str::trim_end_matches(c): every trailing c removed
trim_end_matches(s, c) ==
    IF Len(s) > 0 /\ s[Len(s)] = c
    THEN trim_end_matches(SubSeq(s, 1, Len(s) - 1), c)
    ELSE s

\* p.strip_prefix(&self.prefix).unwrap_or(&p).trim_end_matches('/')
\* (storage.rs 157-160)
ForkNameOf(p, prefix) == trim_end_matches(UnwrapOr(StripPrefix(p, prefix), p), "/")

RECURSIVE ForkNames(_, _)
\* The loop over response.common_prefixes: the non-empty names, in order
\* (storage.rs 153-167)
ForkNames(prefixes, prefix) ==
    IF Len(prefixes) = 0 THEN << >>
    ELSE (IF ForkNameOf(prefixes[1], prefix) # << >>
          THEN << ForkNameOf(prefixes[1], prefix) >>
          ELSE << >>) \o ForkNames(Tail(prefixes), prefix)

NoPrefixes ==
    [ contents |-> << >>, common_prefixes |-> << >>, is_truncated |-> FALSE,
      next_continuation_token |-> None ]

\* The list_objects_v2 request of list_forks, with the delimiter.
PrefixesEntry(ok, resp) ==
    [ Entry("s3", "list_prefixes", storage.bucket, storage.prefix, << >>, None, ok)
        EXCEPT !.contents = resp.common_prefixes, !.is_truncated = resp.is_truncated,
               !.next_continuation_token = resp.next_continuation_token ]

\* StorageClient::list_forks: one list_objects_v2 request with the root
\* prefix and the delimiter "/", then the names of its common prefixes
\* (storage.rs 141-169)
ListForks ==
    /\ pc = "list"
    /\ call.op = "storage_list"
    /\ \/ /\ log' = Append(log, PrefixesEntry(FALSE, NoPrefixes))
          /\ Return(Err("ListPrefixes"))
       \/ \E n \in 1..MaxPage :
             LET resp == ListGrouped(objects[storage.bucket], storage.prefix, "/", n)
             IN  /\ log' = Append(log, PrefixesEntry(TRUE, resp))
                 /\ Return(OkForks(ForkNames(resp.common_prefixes, storage.prefix)))
    /\ UNCHANGED << disk, current, environ, databases, objects, before, call, config, turso,
                    fork_name, database_url, configs, idx, storage_urls, storage,
                    continuation_token, response, contents >>

Next ==
    \/ LoadConfig
    \/ NewTursoClient
    \/ TursoCreateFork
    \/ TursoListDatabases
    \/ TursoDeleteDatabase
    \/ ForBucket
    \/ CallStorage
    \/ CopyList
    \/ CopyObject
    \/ CopyPageDone
    \/ DeleteList
    \/ DeleteObject
    \/ DeletePageDone
    \/ ListForks

Spec == Init /\ [][Next]_vars

\* ---------------------------------------------------- the functions, alone

\* u64::saturating_sub read as absolute difference.
saturating_sub_Abs(a, b) == IF a >= b THEN a - b ELSE b - a

\* u64::saturating_sub
saturating_sub(a, b) == IF a >= b THEN a - b ELSE 0

JUST_NOW == << "j", "u", "s", "t", " ", "n", "o", "w" >>
MINS_AGO == << " ", "m", "i", "n", "s", " ", "a", "g", "o" >>
HOURS_AGO == << " ", "h", "o", "u", "r", "s", " ", "a", "g", "o" >>
DAYS_AGO == << " ", "d", "a", "y", "s", " ", "a", "g", "o" >>

\* Fork::created_ago, as a function of the record's created_at and of the
\* seconds SystemTime::now() reads (lib.rs 29-45)
created_ago(created_at, now) ==
    LET diff == saturating_sub(now, created_at)
    IN  IF diff < 60 THEN JUST_NOW
        ELSE IF diff < 3600 THEN Decimal(diff \div 60) \o MINS_AGO
        ELSE IF diff < 86400 THEN Decimal(diff \div 3600) \o HOURS_AGO
        ELSE Decimal(diff \div 86400) \o DAYS_AGO

\* The created_at values and clock readings created_ago is applied to.
CreatedAts == { 0, 1, 60, 3600, 86400, 1699913600, 1700000000, 2000000000 }
Nows ==
    { 0, 30, 59, 60, 61, 125, 3599, 3600, 3601, 7300, 86399, 86400, 86401, 172800,
      1700000000, 2000000000 }

\* The hash values generate_fork_name is applied to: every limb from
\* LimbValues, so from 0 to 2^64 - 1.
LimbValues == { 0, 1, 255, 256, 1000, 65535 }
U64Values == { << a, b, c, d >> : a \in LimbValues, b \in LimbValues,
                                 c \in LimbValues, d \in LimbValues }

\* What a directory holds under a name, as Path::exists sees it: nothing, a
\* file, or a directory.
Kinds == { "absent", "file", "dir" }

\* Path::exists
exists(kind) == kind # "absent"

DOTTED == << ".", "f", "o", "r", "k", "s", "t", "a", "c", "k", ".", "t", "o", "m", "l" >>
PLAIN == << "f", "o", "r", "k", "s", "t", "a", "c", "k", ".", "t", "o", "m", "l" >>

\* An absolute path is the sequence of its components; the root is << >>.
\* PathBuf::join, and the path as text.
join(path, name) == Append(path, name)
PathText(path) == << "/" >> \o Join(path, << "/" >>)

\* The working directory at depth d below the root: /1/2/../d
WorkingDir(d) == [ i \in 1..d |-> Decimal(i) ]

\* The working directories and what each directory from the root (depth 0)
\* down to the working directory holds under the two names.
FileSystems ==
    UNION { [ 0..d -> [ dotted : Kinds, plain : Kinds ] ] : d \in 0..MaxDepth }

FnCalls ==
    { [ op |-> "created_ago", created_at |-> c, now |-> n ] : c \in CreatedAts, n \in Nows }
    \cup { [ op |-> "generate_fork_name", hash |-> h ] : h \in U64Values }
    \cup { [ op |-> "find_config_file", cwd |-> Some(WorkingDir(Cardinality(DOMAIN fs) - 1)),
             fs |-> fs ] : fs \in FileSystems }
    \cup { [ op |-> "find_config_file", cwd |-> None,
             fs |-> [ d \in 0..0 |-> [ dotted |-> "file", plain |-> "absent" ] ] ] }

\* A function called on its own: the inputs are drawn, nothing else exists.
FnInit ==
    /\ call \in FnCalls
    /\ pc = "start"
    /\ disk = [ found |-> FALSE, readable |-> FALSE, doc |-> DocMinimal ]
    /\ current = << >>
    /\ environ = [ TURSO_API_TOKEN |-> Unset, TURSO_AUTH_TOKEN |-> Unset ]
    /\ databases = << >>
    /\ objects = [ b \in {} |-> {} ]
    /\ before = objects
    /\ config = NoConfig
    /\ turso = NoTurso
    /\ fork_name = << >>
    /\ database_url = << >>
    /\ configs = << >>
    /\ idx = 0
    /\ storage_urls = << >>
    /\ storage = NoClient
    /\ continuation_token = None
    /\ response = NoResponse
    /\ contents = << >>
    /\ result = Running
    /\ log = << >>

\* fork.created_ago() (main.rs 47)
CreatedAgo ==
    /\ pc = "start"
    /\ call.op = "created_ago"
    /\ Return(OkText(created_ago(call.created_at, call.now)))
    /\ UNCHANGED << disk, current, environ, databases, objects, before, call, config, turso,
                    fork_name, database_url, configs, idx, storage_urls, storage,
                    continuation_token, response, contents, log >>

\* generate_fork_name() once the hasher has finished (lib.rs 138-144)
GenerateForkName ==
    /\ pc = "start"
    /\ call.op = "generate_fork_name"
    /\ Return(OkText(generate_fork_name(call.hash)))
    /\ UNCHANGED << disk, current, environ, databases, objects, before, call, config, turso,
                    fork_name, database_url, configs, idx, storage_urls, storage,
                    continuation_token, response, contents, log >>

\* std::env::current_dir()? (config.rs 54)
CurrentDir ==
    /\ pc = "start"
    /\ call.op = "find_config_file"
    /\ IF call.cwd.some
       THEN /\ current' = call.cwd.v
            /\ pc' = "walk"
            /\ UNCHANGED result
       ELSE /\ Return(Err("CurrentDir"))
            /\ UNCHANGED current
    /\ UNCHANGED << disk, environ, databases, objects, before, call, config, turso,
                    fork_name, database_url, configs, idx, storage_urls, storage,
                    continuation_token, response, contents, log >>

\* FoundIn looking for the plain name first.
FoundIn_PlainFirst(dir) ==
    IF exists(dir.plain) THEN Some(PLAIN)
    ELSE IF exists(dir.dotted) THEN Some(DOTTED)
    ELSE None

\* The two checks of one directory, the dotted name first (config.rs 57-66)
FoundIn(dir) ==
    IF exists(dir.dotted) THEN Some(DOTTED)
    ELSE IF exists(dir.plain) THEN Some(PLAIN)
    ELSE None

\* One turn of the loop of find_config_file: the path of a name that exists
\* in `current`, else the parent, else the error when pop() finds no parent
\* (config.rs 56-77)
FindConfigStep ==
    /\ pc = "walk"
    /\ LET found == FoundIn(call.fs[Len(current)])
       IN  IF found.some
           THEN /\ Return(OkText(PathText(join(current, found.v))))
                /\ UNCHANGED current
           ELSE IF Len(current) > 0
           THEN /\ current' = SubSeq(current, 1, Len(current) - 1)
                /\ UNCHANGED << pc, result >>
           ELSE /\ Return(Err("ConfigNotFound"))
                /\ UNCHANGED current
    /\ UNCHANGED << disk, environ, databases, objects, before, call, config, turso,
                    fork_name, database_url, configs, idx, storage_urls, storage,
                    continuation_token, response, contents, log >>

FnNext ==
    \/ CreatedAgo
    \/ GenerateForkName
    \/ CurrentDir
    \/ FindConfigStep

\* The function runs to its end once called.
FnSpec == FnInit /\ [][FnNext]_vars /\ WF_vars(FnNext)

\* ------------------------------------- a command beside another fork's

\* The fork another process creates and deletes while the command runs.
OTHER_FORK == FORK_Y

\* The commands run beside it.
IsoCalls ==
    { [ op |-> "create", name |-> Some(FORK_X), hash |-> U64(0), source_prefix |-> << >> ],
      [ op |-> "delete", name |-> Some(FORK_X), hash |-> U64(0), source_prefix |-> << >> ] }

IsoInit ==
    /\ disk \in { d \in Disks : d.found /\ d.readable /\ d.doc \in { DocOne, DocBare } }
    /\ current = << >>
    /\ environ = [ TURSO_API_TOKEN |-> SetTo(<< "1" >>), TURSO_AUTH_TOKEN |-> Unset ]
    /\ databases \in DbStates
    /\ call \in IsoCalls
    /\ objects \in [ BucketsOf(disk.doc) -> SUBSET SeedKeys ]
    /\ before = objects
    /\ pc = "start"
    /\ config = NoConfig
    /\ turso = NoTurso
    /\ fork_name = << >>
    /\ database_url = << >>
    /\ configs = << >>
    /\ idx = 0
    /\ storage_urls = << >>
    /\ storage = NoClient
    /\ continuation_token = None
    /\ response = NoResponse
    /\ contents = << >>
    /\ result = Running
    /\ log = << >>

\* The storage clients of the other process, one per configured entry.
OtherClients == { NewStorageClient(config.storage[l]) : l \in DOMAIN config.storage }

\* A copy_object request of create_fork(OTHER_FORK) in another process, for a
\* key the bucket held at the start and still holds (storage.rs 63-79).
OtherCopy ==
    /\ pc \notin { "start", "done" }
    /\ \E client \in OtherClients :
          \E key \in before[client.bucket] \cap objects[client.bucket] :
             LET new_key == NewKey(client, OTHER_FORK, key, << >>)
             IN  /\ Len(new_key) <= MaxKeyLen
                 /\ new_key \notin objects[client.bucket]
                 /\ objects' = [ objects EXCEPT ![client.bucket] = @ \cup { new_key } ]
    /\ UNCHANGED << disk, current, environ, databases, before, call, pc, config, turso,
                    fork_name, database_url, configs, idx, storage_urls, storage,
                    continuation_token, response, contents, result, log >>

\* A delete_object request of delete_fork(OTHER_FORK) in another process, for a
\* key under its fork prefix (storage.rs 101-127).
OtherDelete ==
    /\ pc \notin { "start", "done" }
    /\ \E client \in OtherClients :
          \E key \in objects[client.bucket] :
             /\ StartsWith(key, ForkPrefix(client, OTHER_FORK))
             /\ objects' = [ objects EXCEPT ![client.bucket] = @ \ { key } ]
    /\ UNCHANGED << disk, current, environ, databases, before, call, pc, config, turso,
                    fork_name, database_url, configs, idx, storage_urls, storage,
                    continuation_token, response, contents, result, log >>

IsoNext ==
    \/ LoadConfig
    \/ NewTursoClient
    \/ TursoCreateFork
    \/ TursoDeleteDatabase
    \/ ForBucket
    \/ CopyList
    \/ CopyObject
    \/ CopyPageDone
    \/ DeleteList
    \/ DeleteObject
    \/ DeletePageDone
    \/ OtherCopy
    \/ OtherDelete

IsoSpec == IsoInit /\ [][IsoNext]_vars

\* ------------------------------------------------------------------ claims

LogIndex == 1..Len(log)
S3Index == { i \in LogIndex : log[i].svc = "s3" }
TursoIndex == { i \in LogIndex : log[i].svc = "turso" }

\* The configured buckets, and those no storage request has gone to yet.
ConfiguredBuckets == { config.storage[l].bucket : l \in DOMAIN config.storage }
NotStarted(b) == \A i \in S3Index : log[i].target # b

\* The errors that arise before any request.
EarlyErrors == { "ConfigNotFound", "ConfigRead", "ConfigParse", "AuthMissing" }

\* The error a failed storage request turns into.
ErrorOf(e) ==
    IF e.op = "copy_object" THEN "CopyObject"
    ELSE IF e.op = "delete_object" THEN "DeleteObject"
    ELSE IF Copying THEN "ListSource" ELSE "ListDelete"

\* C1: no rollback. When create_fork's database create succeeded and a
\* storage request of some bucket's copy then failed, create_fork returns
\* that storage error (for a copy, naming the key), no DELETE has gone to the
\* provider in the invocation, and the forked database still exists.
C1_NoRollback ==
    call.op = "create" =>
        \A i \in S3Index :
            (~log[i].ok /\ pc = "done") =>
                /\ log[1].svc = "turso" /\ log[1].op = "POST" /\ log[1].ok
                /\ result.status = "err"
                /\ result.error = ErrorOf(log[i])
                /\ log[i].op = "copy_object" =>
                      log[i].source = log[i].target \o << "/" >> \o result.key
                /\ \A j \in TursoIndex : log[j].op # "DELETE"
                /\ fork_name \in DbNames(databases)

\* C1 witness: the copy into the second of two buckets failed after the
\* database was created.
C1_Witness ==
    /\ call.op = "create"
    /\ pc = "done"
    /\ Len(configs) = 2
    /\ idx = 2
    /\ \E i \in S3Index : log[i].op = "copy_object" /\ ~log[i].ok
    /\ fork_name \in DbNames(databases)
    /\ result.error = "CopyObject"

\* C2: abort on first failure in create_fork. The database create is the
\* first request and storage requests follow only its success; a failed
\* request is the last one issued; a configuration or token failure
\* issues none; a failed database create leaves every bucket as it was; and
\* at any time the buckets not yet started are as they were while every
\* object that was there or was copied is in place.
C2_AbortOnFirstFailure ==
    call.op = "create" =>
        /\ S3Index # {} => (log[1].svc = "turso" /\ log[1].op = "POST" /\ log[1].ok)
        /\ \A i \in LogIndex : ~log[i].ok => (i = Len(log) /\ pc = "done"
                                               /\ result.status = "err")
        /\ result.error \in EarlyErrors => log = << >>
        /\ (result.status = "err" /\ S3Index = {}) => objects = before
        /\ \A b \in DOMAIN objects :
              /\ (b \in ConfiguredBuckets /\ NotStarted(b)) => objects[b] = before[b]
              /\ before[b] \subseteq objects[b]
        /\ \A i \in S3Index :
              (log[i].op = "copy_object" /\ log[i].ok) => log[i].key \in objects[log[i].target]

\* C2 witness: the first bucket was copied, a request of the second failed.
C2_Witness ==
    /\ call.op = "create"
    /\ pc = "done"
    /\ result.status = "err"
    /\ Len(configs) = 2
    /\ idx = 2
    /\ \E i \in S3Index : log[i].op = "copy_object" /\ log[i].ok
                          /\ log[i].key \notin before[log[i].target]
    /\ ~log[Len(log)].ok

\* C3: in delete_fork the database delete is the first request, and when it
\* fails, or the configuration load or the token lookup fails, no storage
\* request is issued and every bucket is as it was.
C3_DeleteDatabaseFirst ==
    call.op = "delete" =>
        /\ S3Index # {} => (log[1].svc = "turso" /\ log[1].op = "DELETE" /\ log[1].ok)
        /\ (Len(log) >= 1 /\ ~log[1].ok) =>
              (Len(log) = 1 /\ pc = "done" /\ result.status = "err")
        /\ result.error \in EarlyErrors => log = << >>
        /\ (result.error \in EarlyErrors \/ (Len(log) >= 1 /\ ~log[1].ok)) =>
              (S3Index = {} /\ objects = before)

\* C3 witness: the database delete failed while a configured bucket holds
\* objects of the fork.
C3_Witness ==
    /\ call.op = "delete"
    /\ pc = "done"
    /\ Len(log) = 1
    /\ ~log[1].ok
    /\ \E l \in DOMAIN config.storage :
          \E k \in objects[config.storage[l].bucket] :
             StartsWith(k, fork_prefix(config.storage[l]) \o fork_name \o << "/" >>)

\* C4: in delete_fork a failed storage request is the last request: the
\* command ends with its error, the buckets not yet started are as they
\* were, every object deleted so far stays deleted, and the database is
\* already deleted.
C4_DeleteAbortsOnStorageFailure ==
    call.op = "delete" =>
        \A i \in S3Index :
            ~log[i].ok =>
                /\ i = Len(log)
                /\ pc = "done"
                /\ result.status = "err"
                /\ result.error = ErrorOf(log[i])
                /\ log[i].op = "delete_object" => result.key = log[i].key
                /\ \A b \in ConfiguredBuckets : NotStarted(b) => objects[b] = before[b]
                /\ \A j \in S3Index :
                      (log[j].op = "delete_object" /\ log[j].ok) =>
                          log[j].key \notin objects[log[j].target]
                /\ fork_name \notin DbNames(databases)

\* C4 witness: a delete in the first of two buckets failed after another
\* object was deleted, and the second bucket still holds the fork's objects.
C4_Witness ==
    /\ call.op = "delete"
    /\ pc = "done"
    /\ Len(configs) = 2
    /\ idx = 1
    /\ \E i \in S3Index : log[i].op = "delete_object" /\ log[i].ok
    /\ log[Len(log)].op = "delete_object"
    /\ ~log[Len(log)].ok
    /\ \E k \in objects[config.storage[configs[2]].bucket] :
          StartsWith(k, ForkPrefix(NewStorageClient(config.storage[configs[2]]), fork_name))

\* The position of bucket b in the file's declared order, and in the order
\* the iterator yielded.
DeclaredPos(b) ==
    CHOOSE p \in 1..Len(disk.doc.storage) : disk.doc.storage[p].bucket.v = b
IterPos(b) ==
    CHOOSE p \in 1..Len(configs) : config.storage[configs[p]].bucket = b

\* C5 as stated: the storage requests follow the order in which the
\* configuration file declares the buckets.
C5_DeclaredOrder ==
    call.op \in { "create", "delete" } =>
        \A i, j \in S3Index :
            i < j => DeclaredPos(log[i].target) <= DeclaredPos(log[j].target)

\* C5 amended: create_fork and delete_fork process the configured buckets
\* strictly sequentially, each once, in the order storage_configs() yields
\* them (the storage map's iteration order, any ordering of the entries):
\* every storage request for an earlier bucket of that order is issued
\* before any for a later one.
C5_IterationOrder ==
    call.op \in { "create", "delete" } =>
        /\ S3Index # {} => configs \in Perms(DOMAIN config.storage)
        /\ \A i \in S3Index : log[i].target \in ConfiguredBuckets
        /\ \A i, j \in S3Index :
              i < j => IterPos(log[i].target) <= IterPos(log[j].target)
        /\ (pc = "done" /\ result.status = "ok") =>
              \A b \in ConfiguredBuckets : ~NotStarted(b)

\* C5 witness: two buckets were processed to the end in the order opposite
\* to the declared one.
C5_Witness ==
    /\ call.op = "create"
    /\ pc = "done"
    /\ result.status = "ok"
    /\ Len(configs) = 2
    /\ DeclaredPos(log[2].target) = 2
    /\ \E i \in S3Index : DeclaredPos(log[i].target) = 1 /\ log[i].op = "copy_object"

\* The listing requests sent to bucket b, and the one before request i.
ListIndex(b) == { i \in S3Index : log[i].op = "list_objects" /\ log[i].target = b }
PrevList(i) == { j \in ListIndex(log[i].target) : j < i }
Max(S) == CHOOSE m \in S : \A o \in S : o <= m

\* The key a copy or delete request is about.
KeyOf(e) ==
    IF e.op = "copy_object"
    THEN SubSeq(e.source, Len(e.target) + 2, Len(e.source))
    ELSE e.key

\* The storage call on bucket b has returned Ok.
Completed(b) ==
    /\ ~NotStarted(b)
    /\ \/ pc = "buckets"
       \/ pc = "done" /\ result.status = "ok"
       \/ storage.bucket # b

\* The requests that follow listing request i up to the next listing request
\* or the next bucket: the copies or deletes of its page.
PageOps(i) ==
    { t \in 1..(Len(log) - i) :
        \A u \in 1..t : log[i + u].op # "list_objects"
                        /\ log[i + u].target = log[i].target }

\* The page of listing request i has been gone through.
PageDone(i) ==
    \/ Completed(log[i].target)
    \/ \E j \in ListIndex(log[i].target) : j > i

\* C6: pagination in copy_to_fork and delete_fork. The first listing request
\* of a bucket carries no token and every later one carries the token of
\* the response just before it, which was truncated; when the call returns
\* Ok the last response was not truncated and the listing requests number
\* one more than the truncated responses; and the requests after a listing
\* response are the copies (deletes) of its keys, in order, all of them once
\* the page is done.
C6_Pagination ==
    \A i \in S3Index :
        log[i].op = "list_objects" =>
            /\ IF PrevList(i) = {}
               THEN ~log[i].token.some
               ELSE LET j == Max(PrevList(i))
                    IN  /\ log[j].ok
                        /\ log[j].is_truncated
                        /\ log[j].next_continuation_token.some
                        /\ log[i].token = log[j].next_continuation_token
            /\ log[i].is_truncated => log[i].next_continuation_token.some
            /\ Completed(log[i].target) =>
                  LET L == ListIndex(log[i].target)
                  IN  /\ ~log[Max(L)].is_truncated
                      /\ Cardinality(L) = Cardinality({ j \in L : log[j].is_truncated }) + 1
            /\ Cardinality(PageOps(i)) <= Len(log[i].contents)
            /\ \A t \in PageOps(i) : KeyOf(log[i + t]) = log[i].contents[t]
            /\ PageDone(i) => Cardinality(PageOps(i)) = Len(log[i].contents)

\* C6 witness: a copy that returned Ok after three listing requests, the
\* first two responses truncated.
C6_Witness ==
    /\ Copying
    /\ pc = "done"
    /\ result.status = "ok"
    /\ \E b \in ConfiguredBuckets :
          /\ Cardinality(ListIndex(b)) = 3
          /\ \E i \in ListIndex(b) : Len(log[i].contents) = 2
          /\ Cardinality({ i \in S3Index : log[i].op = "copy_object"
                                           /\ log[i].target = b }) = 4

\* C7: list_forks returns exactly the provider's entries whose name is not
\* the production name, in the provider's order, each with database_url
\* libsql://{hostname}, an empty storage_url and created_at 0; the
\* production database is not among them.
C7_ListForks ==
    (call.op = "list" /\ pc = "done" /\ result.status = "ok") =>
        LET kept == SelectSeq(databases, LAMBDA db : db.name # disk.doc.database.production.v)
        IN  /\ Len(result.forks) = Len(kept)
            /\ \A i \in 1..Len(kept) :
                  /\ result.forks[i].name = kept[i].name
                  /\ result.forks[i].database_url = LIBSQL \o kept[i].hostname
                  /\ result.forks[i].storage_url = << >>
                  /\ result.forks[i].created_at = 0
            /\ \A i \in 1..Len(result.forks) :
                  result.forks[i].name # disk.doc.database.production.v

\* C7 witness: the provider listed the production database between two
\* others and list_forks returned the two.
C7_Witness ==
    /\ call.op = "list"
    /\ pc = "done"
    /\ result.status = "ok"
    /\ Len(databases) = 3
    /\ databases[2].name = PROD
    /\ Len(result.forks) = 2

\* The strings r with p \o r = k, for the prefix p of k: the rest of k.
Suffixes(k) == { SubSeq(k, i, Len(k)) : i \in 1..(Len(k) + 1) }
Rest(k, p) ==
    IF \E r \in Suffixes(k) : p \o r = k
    THEN CHOOSE r \in Suffixes(k) : p \o r = k
    ELSE k

\* The root prefix of the configured entry of bucket b, as the file gives it.
RootPrefix(b) ==
    LET e == CHOOSE e \in Range(disk.doc.storage) : e.bucket.v = b
    IN  IF e.prefix.some THEN e.prefix.v ELSE FORKS_SLASH

\* Keys and source prefixes on which the remapping is compared directly.
RemapKeys == SeedKeys \cup { << "a", "/", "b" >>, << "b" >> }
RemapPrefixes == { << >>, << "a" >>, << "a", "/" >>, FORKS_SLASH, << "b", "/" >> }

\* C8: key remapping in copy_to_fork(source_prefix, fork_name). Every copy
\* request is for a key k of the listing response before it, with copy
\* source {bucket}/{k} and destination {root_prefix}{fork_name}/{rel}, rel
\* being k without source_prefix when k starts with it and k otherwise; the
\* location returned on success is s3://{bucket}/{root_prefix}{fork_name}/.
C8_KeyRemapping ==
    /\ \A i \in S3Index :
          log[i].op = "copy_object" =>
              LET b == log[i].target
                  li == Max({ j \in ListIndex(b) : j < i })
                  k == log[li].contents[i - li]
              IN  /\ i - li <= Len(log[li].contents)
                  /\ log[i].source = b \o << "/" >> \o k
                  /\ log[i].key = RootPrefix(b) \o fork_name \o << "/" >>
                                    \o Rest(k, call.source_prefix)
    /\ \A k \in RemapKeys, p \in RemapPrefixes :
          NewKey(storage, fork_name, k, p)
            = storage.prefix \o fork_name \o << "/" >> \o Rest(k, p)
    /\ (call.op = "storage_copy" /\ result.status = "ok") =>
          result.url = S3_SCHEME \o storage.bucket \o << "/" >>
                         \o RootPrefix(storage.bucket) \o fork_name \o << "/" >>
    /\ call.op = "create" =>
          \A j \in 1..Len(storage_urls) :
              LET b == config.storage[configs[j]].bucket
              IN  storage_urls[j] = configs[j] \o << ":", " " >> \o S3_SCHEME \o b
                                      \o << "/" >> \o RootPrefix(b) \o fork_name
                                      \o << "/" >>

\* C8 witness: copy_to_fork("forks/x/", "y") copied forks/x/a and forks/x/b
\* to forks/y/a and forks/y/b and returned the location.
C8_Witness ==
    /\ call.op = "storage_copy"
    /\ pc = "done"
    /\ result.status = "ok"
    /\ \E i, j \in S3Index :
          /\ log[i].op = "copy_object" /\ log[j].op = "copy_object"
          /\ log[i].key = FORKS_SLASH \o FORK_Y \o << "/", "a" >>
          /\ log[j].key = FORKS_SLASH \o FORK_Y \o << "/", "b" >>
          /\ log[i].source = storage.bucket \o << "/" >> \o FORKS_SLASH \o FORK_X \o << "/", "a" >>

\* C9: once the storage delete_fork of a bucket has returned Ok, the bucket
\* holds no key that starts with {root_prefix}{fork_name}/, whatever it held
\* and whatever page sizes the store applied.
C9_DeleteLeavesNothing ==
    Deleting =>
        \A b \in ConfiguredBuckets :
            Completed(b) =>
                \A k \in objects[b] :
                    ~StartsWith(k, RootPrefix(b) \o fork_name \o << "/" >>)

\* C9 witness: a bucket that held two objects of the fork and another object
\* was emptied of the fork over two listing requests.
C9_Witness ==
    /\ Deleting
    /\ pc = "done"
    /\ result.status = "ok"
    /\ \E b \in ConfiguredBuckets :
          /\ Cardinality({ k \in before[b] :
                             StartsWith(k, RootPrefix(b) \o fork_name \o << "/" >>) }) = 2
          /\ Cardinality(ListIndex(b)) = 2
          /\ objects[b] = { << "a" >> }

EndsWithSlash(s) == Len(s) > 0 /\ s[Len(s)] = "/"

\* The configuration has been loaded.
Loaded == pc \notin { "start" } /\ result.error \notin { "ConfigNotFound", "ConfigRead", "ConfigParse" }

\* C10 as stated: every storage entry's effective root prefix ends with "/"
\* in every configuration that loads.
C10_PrefixEndsWithSlash ==
    Loaded =>
        /\ \A l \in DOMAIN config.storage : EndsWithSlash(fork_prefix(config.storage[l]))
        /\ storage # NoClient => EndsWithSlash(storage.prefix)

\* C10 amended: every storage entry's effective root prefix is the prefix
\* the file gives, unchanged, and "forks/" when the file gives none; so it
\* ends with "/" exactly when the prefix is absent or the given prefix ends
\* with "/". The storage client's prefix is that value.
C10_PrefixAsConfigured ==
    Loaded =>
        /\ \A i \in 1..Len(disk.doc.storage) :
              LET e == disk.doc.storage[i]
                  p == fork_prefix(config.storage[e.label])
              IN  /\ e.prefix.some => p = e.prefix.v
                  /\ ~e.prefix.some => p = FORKS_SLASH
                  /\ EndsWithSlash(p) <=> (~e.prefix.some \/ EndsWithSlash(e.prefix.v))
        /\ storage # NoClient => storage.prefix = RootPrefix(storage.bucket)

\* C10 witness: a storage client built for an entry whose prefix is absent,
\* beside an entry whose prefix is given.
C10_Witness ==
    /\ Loaded
    /\ storage # NoClient
    /\ storage.prefix = FORKS_SLASH
    /\ \E l, m \in DOMAIN config.storage :
          /\ config.storage[l].bucket = storage.bucket
          /\ ~config.storage[l].prefix.some
          /\ config.storage[m].prefix.some

\* The "{label}: {location}" entry of configured label l, from the file's
\* own fields.
UrlEntry(l) ==
    LET e == CHOOSE e \in Range(disk.doc.storage) : e.label = l
    IN  l \o << ":", " " >> \o S3_SCHEME \o e.bucket.v \o << "/" >>
          \o (IF e.prefix.some THEN e.prefix.v ELSE FORKS_SLASH)
          \o fork_name \o << "/" >>

\* The labels the file declares.
Labels == { disk.doc.storage[i].label : i \in 1..Len(disk.doc.storage) }

\* C11: on success create_fork returns a Fork whose name is the name the
\* caller gave, and a generated name only when none was given; whose
\* database_url is libsql://{hostname} of the database the provider created;
\* and whose storage_url is the "{label}: {location}" entries joined by
\* newlines, exactly one per configured bucket, and is empty when no bucket
\* is configured.
C11_CreateForkResult ==
    (call.op = "create" /\ pc = "done" /\ result.status = "ok") =>
        /\ call.name.some => result.fork.name = call.name.v
        /\ ~call.name.some => result.fork.name = generate_fork_name(call.hash)
        /\ \E i \in 1..Len(databases) :
              /\ databases[i].name = result.fork.name
              /\ result.fork.database_url = LIBSQL \o databases[i].hostname
        /\ \E order \in Perms(Labels) :
              result.fork.storage_url
                = Join([ i \in 1..Len(order) |-> UrlEntry(order[i]) ], << "\n" >>)
        /\ Cardinality({ i \in 1..Len(result.fork.storage_url) :
                           result.fork.storage_url[i] = "\n" })
             = (IF Labels = {} THEN 0 ELSE Cardinality(Labels) - 1)
        /\ Labels = {} => result.fork.storage_url = << >>

\* C11 witness: create_fork(None) returned a generated name and a
\* two-entry storage_url.
C11_Witness ==
    /\ call.op = "create"
    /\ pc = "done"
    /\ result.status = "ok"
    /\ ~call.name.some
    /\ result.fork.name = generate_fork_name(call.hash)
    /\ Cardinality(Labels) = 2
    /\ \E i \in 1..Len(result.fork.storage_url) : result.fork.storage_url[i] = "\n"

\* The fork names visible under root prefix p among keys: the non-empty
\* segments n without "/" such that some key starts with {p}{n}/.
VisibleForks(keys, p) ==
    { n \in UNION { { SubSeq(k, Len(p) + 1, j) : j \in (Len(p) + 1)..Len(k) } : k \in keys } :
        /\ n # << >>
        /\ "/" \notin Range(n)
        /\ \E k \in keys : StartsWith(k, p \o n \o << "/" >>) }

\* C12 as stated: the storage client's list_forks returns exactly the fork
\* names n for which the bucket holds an object whose key starts with
\* {root_prefix}{n}/, whatever number of common prefixes the store returns
\* in a listing response; each name is a common prefix without the root
\* prefix and the trailing "/", and no name is empty.
C12_ListsEveryFork ==
    (call.op = "storage_list" /\ pc = "done" /\ result.status = "ok") =>
        /\ Range(result.forks) = VisibleForks(objects[storage.bucket], storage.prefix)
        /\ \A i \in 1..Len(result.forks) :
              /\ result.forks[i] # << >>
              /\ storage.prefix \o result.forks[i] \o << "/" >> \in Range(log[Len(log)].contents)

\* What list_forks returns in every case: the names of the common prefixes
\* of its single listing response, all the visible forks when that response
\* is not truncated.
C12_FirstResponseOnly ==
    (call.op = "storage_list" /\ pc = "done" /\ result.status = "ok") =>
        /\ Cardinality({ i \in S3Index : log[i].op = "list_prefixes" }) = 1
        /\ Range(result.forks) \subseteq VisibleForks(objects[storage.bucket], storage.prefix)
        /\ \A i \in 1..Len(result.forks) :
              /\ result.forks[i] # << >>
              /\ storage.prefix \o result.forks[i] \o << "/" >> \in Range(log[Len(log)].contents)
        /\ ~log[Len(log)].is_truncated =>
              Range(result.forks) = VisibleForks(objects[storage.bucket], storage.prefix)

\* C12 in the failing case: the bucket holds objects of forks x and y, the
\* store returned one common prefix, and list_forks returned x alone.
C12_Witness ==
    /\ call.op = "storage_list"
    /\ pc = "done"
    /\ result.status = "ok"
    /\ log[Len(log)].is_truncated
    /\ result.forks = << FORK_X >>
    /\ FORK_Y \in VisibleForks(objects[storage.bucket], storage.prefix)

\* The command goes through TursoClient::new and is past it.
PastClient ==
    /\ call.op \in { "create", "list", "delete" }
    /\ Loaded
    /\ pc \notin { "start", "client" }

\* C13 as stated: the token is the value of TURSO_API_TOKEN when it is set,
\* else the value of TURSO_AUTH_TOKEN when that is set; when neither is set
\* the command ends with the authentication-missing error and no request.
C13_TokenWhenSet ==
    PastClient =>
        /\ environ.TURSO_API_TOKEN.set =>
              (turso # NoTurso /\ turso.token = environ.TURSO_API_TOKEN.v)
        /\ (~environ.TURSO_API_TOKEN.set /\ environ.TURSO_AUTH_TOKEN.set) =>
              (turso # NoTurso /\ turso.token = environ.TURSO_AUTH_TOKEN.v)
        /\ (~environ.TURSO_API_TOKEN.set /\ ~environ.TURSO_AUTH_TOKEN.set) =>
              (pc = "done" /\ result = Err("AuthMissing") /\ log = << >>
               /\ objects = before)

\* The variable holds a string: it is set and its value is valid Unicode.
Readable(x) == x.set /\ x.unicode

\* C13 amended: the token is the value of TURSO_API_TOKEN when that is set
\* to valid Unicode, else the value of TURSO_AUTH_TOKEN when that is set to
\* valid Unicode; a variable that is not set or whose value is not valid
\* Unicode is passed over. When neither yields a value the command ends
\* with the authentication-missing error, with no request to the provider
\* or the store, and only then; every request to the provider carries the
\* token.
C13_TokenResolution ==
    PastClient =>
        /\ Readable(environ.TURSO_API_TOKEN) =>
              (turso # NoTurso /\ turso.token = environ.TURSO_API_TOKEN.v)
        /\ (~Readable(environ.TURSO_API_TOKEN) /\ Readable(environ.TURSO_AUTH_TOKEN)) =>
              (turso # NoTurso /\ turso.token = environ.TURSO_AUTH_TOKEN.v)
        /\ (~Readable(environ.TURSO_API_TOKEN) /\ ~Readable(environ.TURSO_AUTH_TOKEN)) <=>
              result.error = "AuthMissing"
        /\ result.error = "AuthMissing" =>
              (pc = "done" /\ result = Err("AuthMissing") /\ turso = NoTurso
               /\ log = << >> /\ objects = before)
        /\ \A i \in TursoIndex : log[i].auth = turso.token

\* C13 witness: TURSO_API_TOKEN is not valid Unicode, TURSO_AUTH_TOKEN is
\* set, and a request went to the provider with the latter's value.
C13_Witness ==
    /\ PastClient
    /\ environ.TURSO_API_TOKEN = NotUnicode
    /\ environ.TURSO_AUTH_TOKEN = SetTo(<< "2" >>)
    /\ Len(log) >= 1
    /\ log[1].svc = "turso"
    /\ log[1].auth = << "2" >>

\* The requests to the provider that met a non-success status.
Refused == { i \in TursoIndex : log[i].status # 0 /\ ~is_success(log[i].status) }

\* C14 as stated: for the client's create_fork, list_databases and
\* delete_database a non-success status always yields an error carrying the
\* status code and the raw response body, the body is never taken as a
\* success payload, and the call issues exactly one HTTP request.
C14_StatusAndRawBody ==
    /\ Cardinality(TursoIndex) <= 1
    /\ \A i \in Refused :
          /\ log[i].op \in { "POST", "GET", "DELETE" }
          /\ pc = "done"
          /\ result = ErrApi(log[i].status, log[i].body)
          /\ i = Len(log)

\* C14 amended: a non-success status always yields an error carrying the
\* status code and the response body as text, the empty text when the body
\* cannot be read; the body is never taken as a success payload (the
\* command ends there, with nothing created, listed or deleted by it on
\* the storage side); and each call issues exactly one HTTP request,
\* whatever its outcome.
C14_StatusAndBodyText ==
    /\ Cardinality(TursoIndex) <= 1
    /\ (call.op \in { "create", "list", "delete" } /\ pc \in { "buckets", "list", "objects" }) =>
          Cardinality(TursoIndex) = 1
    /\ \A i \in Refused :
          /\ log[i].op \in { "POST", "GET", "DELETE" }
          /\ pc = "done"
          /\ result.status = "err"
          /\ result.error = "TursoApi"
          /\ result.code = log[i].status
          /\ result.body = (IF log[i].readable THEN log[i].body ELSE << >>)
          /\ result.fork = NoFork /\ result.forks = << >>
          /\ i = Len(log)
          /\ objects = before
    /\ \A i \in TursoIndex :
          (pc = "done" /\ result.error = "TursoApi") => i \in Refused

\* C14 witness: a DELETE met status 404 with a body, and delete_fork ended
\* with the error carrying 404 and that body.
C14_Witness ==
    /\ call.op = "delete"
    /\ pc = "done"
    /\ Len(log) = 1
    /\ log[1].op = "DELETE"
    /\ log[1].status = 404
    /\ log[1].body = << "e" >>
    /\ result = ErrApi(404, << "e" >>)

\* C15: created_ago uses diff = max(0, now - created_at) and returns "just
\* now" when diff < 60, "{diff div 60} mins ago" when 60 <= diff < 3600,
\* "{diff div 3600} hours ago" when 3600 <= diff < 86400 and "{diff div
\* 86400} days ago" otherwise, the quotient being the floor; a created_at
\* later than now gives "just now".
C15_CreatedAgo ==
    (call.op = "created_ago" /\ pc = "done") =>
        LET d == IF call.now - call.created_at > 0 THEN call.now - call.created_at ELSE 0
            unit == IF d < 3600 THEN 60 ELSE IF d < 86400 THEN 3600 ELSE 86400
            q == d \div unit
            word == IF d < 3600 THEN MINS_AGO ELSE IF d < 86400 THEN HOURS_AGO ELSE DAYS_AGO
        IN  /\ result.status = "ok"
            /\ d < 60 => result.text = JUST_NOW
            /\ d >= 60 =>
                  /\ q * unit <= d /\ d - q * unit < unit
                  /\ q >= 1
                  /\ result.text = Decimal(q) \o word
            /\ call.created_at > call.now => result.text = JUST_NOW

\* C15 witness: created_ago on a record created 7300 seconds before now
\* returned "2 hours ago".
C15_Witness ==
    /\ call.op = "created_ago"
    /\ pc = "done"
    /\ call.now - call.created_at = 7300
    /\ result.text = << "2" >> \o HOURS_AGO

\* The eight bytes of a u64, least significant first, and floor(h / 256^k)
\* mod m computed over them.
BytesOf(h) == [ i \in 1..8 |-> IF i % 2 = 1 THEN h[(i + 1) \div 2] % 256
                                             ELSE h[i \div 2] \div 256 ]

RECURSIVE ModPow(_, _)
\* 256^e mod m
ModPow(e, m) == IF e = 0 THEN 1 % m ELSE (ModPow(e - 1, m) * 256) % m

RECURSIVE ModFrom(_, _, _, _)
ModFrom(bytes, i, k, m) ==
    IF i <= k THEN 0
    ELSE (ModFrom(bytes, i - 1, k, m) + bytes[i] * ModPow(i - k - 1, m)) % m

\* The lists as the claim gives them.
SWIFT_TO_KEEN ==
    << << "s", "w", "i", "f", "t" >>, << "b", "r", "i", "g", "h", "t" >>,
       << "c", "a", "l", "m" >>, << "b", "o", "l", "d" >>, << "k", "e", "e", "n" >> >>
FORK_TO_SPARK ==
    << << "f", "o", "r", "k" >>, << "b", "r", "a", "n", "c", "h" >>,
       << "l", "e", "a", "f" >>, << "w", "a", "v", "e" >>, << "s", "p", "a", "r", "k" >> >>

\* C16: for every 64-bit hash value h the generated name is
\* {adjectives[h mod 5]}-{nouns[(h >> 8) mod 5]}-{(h >> 16) mod 1000} over
\* [swift, bright, calm, bold, keen] and [fork, branch, leaf, wave, spark];
\* both indices are in 0..4 and the suffix is in 0..999.
C16_GeneratedName ==
    (call.op = "generate_fork_name" /\ pc = "done") =>
        LET b == BytesOf(call.hash)
            i == ModFrom(b, 8, 0, 5)
            j == ModFrom(b, 8, 1, 5)
            n == ModFrom(b, 8, 2, 1000)
        IN  /\ i \in 0..4 /\ j \in 0..4 /\ n \in 0..999
            /\ result.status = "ok"
            /\ result.text = SWIFT_TO_KEEN[i + 1] \o << "-" >> \o FORK_TO_SPARK[j + 1]
                               \o << "-" >> \o Decimal(n)

\* C16 witness: h = 2^64 - 1 gave "swift-fork-655".
C16_Witness ==
    /\ call.op = "generate_fork_name"
    /\ pc = "done"
    /\ call.hash = << 65535, 65535, 65535, 65535 >>
    /\ result.text = SWIFT_TO_KEEN[1] \o << "-" >> \o FORK_TO_SPARK[1]
                       \o << "-", "6", "5", "5" >>

DEFAULT_GROUP == << "d", "e", "f", "a", "u", "l", "t" >>

\* C17: configuration defaults. database_group() is the group the file
\* gives, and "default" when it gives none (and this is the group create_fork
\* sends); a storage entry's fork_prefix() is the prefix the file gives,
\* unchanged, and "forks/" when it gives none; a file with no storage
\* section yields an empty storage mapping, and then no storage request is
\* made.
C17_ConfigDefaults ==
    Loaded =>
        /\ disk.doc.database.group.some => database_group(config) = disk.doc.database.group.v
        /\ ~disk.doc.database.group.some => database_group(config) = DEFAULT_GROUP
        /\ \A i \in TursoIndex : log[i].op = "POST" => log[i].group = database_group(config)
        /\ DOMAIN config.storage = Labels
        /\ \A i \in 1..Len(disk.doc.storage) :
              LET e == disk.doc.storage[i]
              IN  /\ e.prefix.some => fork_prefix(config.storage[e.label]) = e.prefix.v
                  /\ ~e.prefix.some => fork_prefix(config.storage[e.label]) = FORKS_SLASH
                  /\ config.storage[e.label].bucket = e.bucket.v
        /\ Len(disk.doc.storage) = 0 => (config.storage = << >> /\ S3Index = {})

\* C17 witness: a file with [database] alone and no group: create_fork sent
\* the group "default" and ended Ok without a storage request.
C17_Witness ==
    /\ Loaded
    /\ disk.doc = DocMinimal
    /\ call.op = "create"
    /\ pc = "done"
    /\ result.status = "ok"
    /\ log[1].group = DEFAULT_GROUP
    /\ DOMAIN config.storage = {}
    /\ S3Index = {}

\* The depths, from the root to the working directory, whose directory
\* holds one of the two names.
Holders == { d \in DOMAIN call.fs : exists(call.fs[d].dotted) \/ exists(call.fs[d].plain) }

\* C18, the walk: from the working directory upward, never past a directory
\* that holds one of the names; it ends with the path of the name in the
\* nearest such directory, the dotted name when that directory holds both,
\* and with the configuration-not-found error exactly when no directory up
\* to the root holds either.
C18_Walk ==
    (call.op = "find_config_file" /\ call.cwd.some) =>
        /\ pc = "walk" =>
              /\ current = SubSeq(call.cwd.v, 1, Len(current))
              /\ \A d \in Holders : d <= Len(current)
        /\ pc = "done" =>
              /\ Holders = {} <=> result = Err("ConfigNotFound")
              /\ Holders # {} =>
                    LET n == Max(Holders)
                        name == IF exists(call.fs[n].dotted) THEN DOTTED ELSE PLAIN
                    IN  result = OkText(PathText(SubSeq(call.cwd.v, 1, n) \o << name >>))

\* C18: configuration discovery walks as C18_Walk says and always
\* terminates.
C18_Discovery == []C18_Walk /\ <>(pc = "done")

\* C18 witness: the working directory /1/2 holds neither name, /1 holds
\* both, the root holds the dotted one, and the walk returned
\* /1/.forkstack.toml.
C18_Witness ==
    /\ call.op = "find_config_file"
    /\ pc = "done"
    /\ call.cwd = Some(<< << "1" >>, << "2" >> >>)
    /\ Holders = { 0, 1 }
    /\ exists(call.fs[1].plain) /\ exists(call.fs[1].dotted)
    /\ result.text = << "/", "1", "/" >> \o DOTTED

\* The fork prefix create_fork writes under in bucket b.
ForkPrefixIn(b) == RootPrefix(b) \o fork_name \o << "/" >>

\* The keys of S under prefix p.
Under(S, p) == { k \in S : StartsWith(k, p) }

\* Every request sent to the store so far has succeeded.
StoreCallsSucceeded == \A i \in S3Index : log[i].ok

\* What bucket log[i].target held when request i was sent: what it held at
\* the start and the copies made since.
ObjectsAt(i) ==
    before[log[i].target]
      \cup { log[j].key : j \in { h \in S3Index : h < i /\ log[h].op = "copy_object"
                                                     /\ log[h].ok
                                                     /\ log[h].target = log[i].target } }

\* The keys listing request i still had ahead of it: those of the bucket
\* beyond its continuation token.
PendingAt(i) ==
    { k \in ObjectsAt(i) : StartsWith(k, log[i].key)
                           /\ (log[i].token.some => LexLess(log[i].token.v, k)) }

\* Listing request j has ahead of it exactly the copies of what the earlier
\* request i of the same bucket had ahead of it.
Recurs(i, j) ==
    /\ i < j
    /\ PendingAt(i) # {}
    /\ PendingAt(j) = { ForkPrefixIn(log[i].target) \o k : k \in PendingAt(i) }

\* C19: copy_to_fork("", fork_name) terminates when every store call
\* succeeds. Prefixing keys with the fork prefix keeps their order and
\* turns the copy of a key into the copy of the prefixed key, so a store
\* that answers with one key a page takes a copy that reaches Recurs(i, j)
\* from j to a third request in the same relation to j, and so on without
\* end. The copy terminating, no two listing requests of a run whose store
\* calls all succeeded, with one key a page, are in that relation.
C19_CopyTerminates ==
    (call.op = "create" /\ StoreCallsSucceeded) =>
        \A b \in ConfiguredBuckets :
            (\A h \in ListIndex(b) : Len(log[h].contents) <= 1) =>
                \A i, j \in ListIndex(b) : ~Recurs(i, j)

\* C19: every store call has succeeded with one key a page, and the listing
\* request copy_to_fork("", "y") has just sent has ahead of it forks/y/forks/x/a
\* and forks/y/forks/y/a, the copies of what its request before the last had
\* ahead of it.
C19_Witness ==
    /\ call.op = "create"
    /\ pc = "objects"
    /\ StoreCallsSucceeded
    /\ fork_name = FORK_Y
    /\ before[storage.bucket] = { << "a" >>, FORKS_SLASH \o FORK_X \o << "/", "a" >> }
    /\ \A h \in ListIndex(storage.bucket) : Len(log[h].contents) <= 1
    /\ \E i, j \in ListIndex(storage.bucket) :
          /\ Recurs(i, j)
          /\ j = Len(log)
          /\ PendingAt(j) = { FORKS_SLASH \o FORK_Y \o << "/" >> \o k :
                                k \in { FORKS_SLASH \o FORK_X \o << "/", "a" >>,
                                        FORKS_SLASH \o FORK_Y \o << "/", "a" >> } }

\* C20: when create_fork succeeds, in every configured bucket that held
\* nothing under the fork's prefix when the command started, the keys under
\* that prefix are exactly the fork prefix followed by k, for the keys k the
\* bucket held when the command started.
C20_ExactlyTheCopies ==
    (call.op = "create" /\ pc = "done" /\ result.status = "ok") =>
        \A b \in ConfiguredBuckets :
            Under(before[b], ForkPrefixIn(b)) = {} =>
                Under(objects[b], ForkPrefixIn(b))
                  = { ForkPrefixIn(b) \o k : k \in before[b] }

\* C20: create_fork("y") has succeeded on a bucket that held a and
\* forks/x/a, and the bucket now holds forks/y/forks/y/a, the copy of the
\* copy of a.
C20_Witness ==
    /\ call.op = "create"
    /\ pc = "done"
    /\ result.status = "ok"
    /\ fork_name = FORK_Y
    /\ \E b \in ConfiguredBuckets :
          /\ before[b] = { << "a" >>, FORKS_SLASH \o FORK_X \o << "/", "a" >> }
          /\ ForkPrefixIn(b) = FORKS_SLASH \o FORK_Y \o << "/" >>
          /\ ForkPrefixIn(b) \o ForkPrefixIn(b) \o << "a" >> \in objects[b]

\* A step of the command itself, not of the other process: something other
\* than the buckets changes.
CommandStep ==
    << pc, config, turso, fork_name, databases, database_url, configs, idx, storage_urls,
       storage, continuation_token, response, contents, result, log >>'
      # << pc, config, turso, fork_name, databases, database_url, configs, idx, storage_urls,
           storage, continuation_token, response, contents, result, log >>

\* The keys of bucket b a step adds, and those it removes.
Added(b) == objects'[b] \ objects[b]
Removed(b) == objects[b] \ objects'[b]

\* The request a step sends to the store, when it sends one.
Sends(op) == Len(log') = Len(log) + 1 /\ log'[Len(log')].svc = "s3" /\ log'[Len(log')].op = op

\* The other fork's prefix in bucket b.
OtherPrefixIn(b) == RootPrefix(b) \o OTHER_FORK \o << "/" >>

\* C21, one step of create_fork(a) or delete_fork(a), run beside another
\* process that writes and deletes fork b's objects: create_fork sends no
\* delete request, removes no key, and every copy request it sends writes
\* a key that starts with {root_prefix}a/; delete_fork sends no copy
\* request, adds no key, and every delete request it sends names a key
\* that starts with {root_prefix}a/; and the step leaves every key outside
\* {root_prefix}a/ as it was, the keys under {root_prefix}b/ and the keys
\* outside the root prefix among them.
IsolatedStep ==
    CommandStep =>
        /\ call.op = "create" =>
              /\ ~Sends("delete_object")
              /\ Sends("copy_object") =>
                    StartsWith(log'[Len(log')].key, ForkPrefixIn(log'[Len(log')].target))
              /\ \A b \in DOMAIN objects : Removed(b) = {}
        /\ call.op = "delete" =>
              /\ ~Sends("copy_object")
              /\ Sends("delete_object") =>
                    StartsWith(log'[Len(log')].key, ForkPrefixIn(log'[Len(log')].target))
              /\ \A b \in DOMAIN objects : Added(b) = {}
        /\ \A b \in DOMAIN objects :
              /\ \A k \in Added(b) \cup Removed(b) : StartsWith(k, ForkPrefixIn(b))
              /\ Under(objects'[b], OtherPrefixIn(b)) = Under(objects[b], OtherPrefixIn(b))
              /\ { k \in objects'[b] : ~StartsWith(k, RootPrefix(b)) }
                   = { k \in objects[b] : ~StartsWith(k, RootPrefix(b)) }

\* C21: isolation of storage effects: every step of create_fork(a) and of
\* delete_fork(a), alone or interleaved with the other process's writes
\* and deletes under fork b's prefix, is an IsolatedStep.
C21_Isolation == [][IsolatedStep]_vars

\* C21 witness: while create_fork("x") ran, the other process wrote a's copy
\* under fork y's prefix; create_fork listed and copied it under fork x's
\* prefix and returned Ok, and a and fork y's object are still there.
C21_Witness ==
    /\ call.op = "create"
    /\ pc = "done"
    /\ result.status = "ok"
    /\ \E b \in DOMAIN objects :
          /\ OtherPrefixIn(b) \o << "a" >> \in objects[b] \ before[b]
          /\ ForkPrefixIn(b) \o OtherPrefixIn(b) \o << "a" >> \in objects[b]
          /\ << "a" >> \in objects[b]

\* C22: the production database is never deleted: every DELETE request to
\* the provider names a database other than the configured production
\* database.
C22_ProductionNeverDeleted ==
    \A i \in TursoIndex :
        log[i].op = "DELETE" => log[i].key # config.database.production

\* C22: delete_fork was called with the production database's name, the
\* provider accepted the DELETE request for it, and the command returned Ok
\* with the production database gone.
C22_Witness ==
    /\ call.op = "delete"
    /\ call.name.v = config.database.production
    /\ pc = "done"
    /\ result.status = "ok"
    /\ \E i \in TursoIndex : /\ log[i].op = "DELETE"
                             /\ log[i].ok
                             /\ log[i].key = config.database.production
    /\ config.database.production \notin DbNames(databases)

====
